---- MODULE Spec2Model ----
(***************************************************************************)
(* A model of litgpt/adapter_v2.py (LLaMA-Adapter V2 port for LitGPT):     *)
(* construction of the adapted GPT, the marking of trainable parameters,   *)
(* AdapterV2Linear's forward pass, the checkpoint key remapping of the     *)
(* _load_from_state_dict hooks and the argument checks of GPT.forward.     *)
(***************************************************************************)
EXTENDS Integers, Sequences, FiniteSets, TLC

VARIABLES
    config,         \* the Config the model was built from
    modules,        \* module path -> class name (the nn.Module tree)
    params,         \* parameter path -> [requires_grad, shape, init]
    marked,         \* calls of mark_only_adapter_v2_as_trainable since the last assignment
    flips,          \* number of requires_grad assignments made by the caller
    lin,            \* one AdapterV2Linear: its four parameter tensors
    fwd,            \* last forward call of lin: [x, y] or NoCall
    fresh,          \* how lin's adapter parameters were last set
    state_dict,     \* the state dict a _load_from_state_dict hook works on
    loader,         \* [cls, prefix, cfg]: the module whose hook runs
    sd_in,          \* the state dict as it was handed to the hook
    remapped,       \* the state dict right after map_old_state_dict_weights
    load_pc,        \* "start" | "loaded": before / after the hook's own code
    gpt,            \* a GPT instance: [max_seq_length, cos_size, mask_cache]
    call            \* outcome of the last GPT.forward call, or NoCall

vars == <<config, modules, params, marked, flips, lin, fwd, fresh,
          state_dict, loader, sd_in, remapped, load_pc, gpt, call>>

markVars == <<config, modules, params, marked, flips>>
linVars  == <<lin, fwd, fresh>>
loadVars == <<state_dict, loader, sd_in, remapped, load_pc>>
fwdVars  == <<gpt, call>>

NoCall == [kind |-> "none"]

-----------------------------------------------------------------------------
(* Bounds of the model *)

MaxLayer  == 2      \* n_layer ranges over 1..MaxLayer
MaxHead   == 2      \* n_head ranges over 1..MaxHead
MaxExpert == 2      \* n_expert ranges over 1..MaxExpert (LLaMAMoE)
MaxFlips  == 1      \* requires_grad assignments made by the caller
MaxMarks  == 2      \* consecutive calls of mark_only_adapter_v2_as_trainable
MaxFeat   == 2      \* in_features and out_features range over 1..MaxFeat
MaxSeq    == 3      \* block_size ranges over 1..MaxSeq, positions over 0..MaxSeq
MaxKeys   == 3      \* number of keys of the state dict handed to a hook

-----------------------------------------------------------------------------
(* Strings.  Python's `s in key` works on characters, so a parameter name  *)
(* is the character sequence obtained by joining its path with ".".        *)

Chars(tok) ==
    CASE tok = "transformer"         -> <<"t","r","a","n","s","f","o","r","m","e","r">>
      [] tok = "wte"                 -> <<"w","t","e">>
      [] tok = "h"                   -> <<"h">>
      [] tok = "ln_f"                -> <<"l","n","_","f">>
      [] tok = "lm_head"             -> <<"l","m","_","h","e","a","d">>
      [] tok = "linear"              -> <<"l","i","n","e","a","r">>
      [] tok = "weight"              -> <<"w","e","i","g","h","t">>
      [] tok = "bias"                -> <<"b","i","a","s">>
      [] tok = "adapter_scale"       -> <<"a","d","a","p","t","e","r","_","s","c","a","l","e">>
      [] tok = "adapter_bias"        -> <<"a","d","a","p","t","e","r","_","b","i","a","s">>
      [] tok = "adapter_wte"         -> <<"a","d","a","p","t","e","r","_","w","t","e">>
      [] tok = "gating_factor"       -> <<"g","a","t","i","n","g","_","f","a","c","t","o","r">>
      [] tok = "norm_1"              -> <<"n","o","r","m","_","1">>
      [] tok = "norm_2"              -> <<"n","o","r","m","_","2">>
      [] tok = "post_attention_norm" -> <<"p","o","s","t","_","a","t","t","e","n","t","i","o","n","_","n","o","r","m">>
      [] tok = "post_mlp_norm"       -> <<"p","o","s","t","_","m","l","p","_","n","o","r","m">>
      [] tok = "attn"                -> <<"a","t","t","n">>
      [] tok = "qkv"                 -> <<"q","k","v">>
      [] tok = "proj"                -> <<"p","r","o","j">>
      [] tok = "mlp"                 -> <<"m","l","p">>
      [] tok = "fc"                  -> <<"f","c">>
      [] tok = "fc_1"                -> <<"f","c","_","1">>
      [] tok = "fc_2"                -> <<"f","c","_","2">>
      [] tok = "gate"                -> <<"g","a","t","e">>
      [] tok = "experts"             -> <<"e","x","p","e","r","t","s">>
      [] OTHER                       -> <<tok>>     \* a one-character name ("0", "1", ...)

Index(i) ==
    CASE i = 0 -> "0" [] i = 1 -> "1" [] i = 2 -> "2" [] i = 3 -> "3" [] i = 4 -> "4"
      [] i = 5 -> "5" [] i = 6 -> "6" [] i = 7 -> "7" [] i = 8 -> "8" [] i = 9 -> "9"

RECURSIVE FullName(_)
FullName(path) ==
    IF Len(path) = 0 THEN <<>>
    ELSE IF Len(path) = 1 THEN Chars(path[1])
    ELSE Chars(path[1]) \o <<".">> \o FullName(Tail(path))

\* Python's `s in key`
Contains(key, s) ==
    \E i \in 1..(Len(key) - Len(s) + 1) :
        key[i] = s[1] /\ SubSeq(key, i, i + Len(s) - 1) = s

adapter_substrings ==
    { Chars("adapter_wte"), Chars("gating_factor"),
      Chars("adapter_scale"), Chars("adapter_bias"),
      Chars("norm_1"), Chars("norm_2"), Chars("ln_f") }

adapter_filter(key) == \E s \in adapter_substrings : Contains(key, s)

-----------------------------------------------------------------------------
(* Construction.  Every constructor returns the modules it registers       *)
(* (path -> class) and the parameters it registers (path -> record), both  *)
(* as sets of pairs.                                                       *)

Param(rg, shape, init) == [requires_grad |-> rg, shape |-> shape, init |-> init]

Merge(a, b) == [mods |-> a.mods \cup b.mods, prms |-> a.prms \cup b.prms]

RECURSIVE MergeAll(_)
MergeAll(S) ==
    IF S = {} THEN [mods |-> {}, prms |-> {}]
    ELSE LET a == CHOOSE x \in S : TRUE IN Merge(a, MergeAll(S \ {a}))

\* torch.nn.Linear: weight always, bias only when bias=True; both trainable.
Linear_init(path, in_features, out_features, bias) ==
    [mods |-> { <<path, "Linear">> },
     prms |-> { <<path \o <<"weight">>, Param(TRUE, <<out_features, in_features>>, "random")>> }
              \cup (IF bias
                    THEN { <<path \o <<"bias">>, Param(TRUE, <<out_features>>, "random")>> }
                    ELSE {})]

AdapterV2Linear_init(path, in_features, out_features, bias) ==
    Merge(Linear_init(path \o <<"linear">>, in_features, out_features, bias),
          [mods |-> { <<path, "AdapterV2Linear">> },
           prms |-> { <<path \o <<"adapter_bias">>,  Param(FALSE, <<out_features>>, "zeros")>>,
                      <<path \o <<"adapter_scale">>, Param(FALSE, <<out_features>>, "ones")>> }])

\* config.norm_class(n_embd, eps): LayerNorm has weight and bias, RMSNorm a weight.
Norm_init(cfg, path) ==
    [mods |-> { <<path, cfg.norm_class>> },
     prms |-> { <<path \o <<"weight">>, Param(TRUE, <<cfg.n_embd>>, "ones")>> }
              \cup (IF cfg.norm_class = "LayerNorm"
                    THEN { <<path \o <<"bias">>, Param(TRUE, <<cfg.n_embd>>, "zeros")>> }
                    ELSE {})]

Identity_init(path) == [mods |-> { <<path, "Identity">> }, prms |-> {}]

Embedding_init(path, num, dim) ==
    [mods |-> { <<path, "Embedding">> },
     prms |-> { <<path \o <<"weight">>, Param(TRUE, <<num, dim>>, "random")>> }]

\* an off-by-one start layer
HasAdapterAfterStart(cfg, block_idx) == block_idx > cfg.adapter_start_layer

\* the condition of line 174
HasAdapter(cfg, block_idx) == block_idx >= cfg.adapter_start_layer

CausalSelfAttention_init(cfg, path, block_idx) ==
    LET shape == (cfg.n_head + 2 * cfg.n_query_groups) * cfg.head_size IN
    MergeAll({
        [mods |-> { <<path, "CausalSelfAttention">> }, prms |-> {}],
        AdapterV2Linear_init(path \o <<"qkv">>, cfg.n_embd, shape, cfg.bias \/ cfg.attn_bias),
        AdapterV2Linear_init(path \o <<"proj">>, cfg.head_size * cfg.n_head, cfg.n_embd, cfg.bias),
        IF HasAdapter(cfg, block_idx)
        THEN Merge(Embedding_init(path \o <<"adapter_wte">>, cfg.adapter_prompt_length, cfg.n_embd),
                   [mods |-> {},
                    prms |-> { <<path \o <<"gating_factor">>,
                                 Param(TRUE, <<1, 1, cfg.n_head, 1>>, "zeros")>> }])
        ELSE [mods |-> {}, prms |-> {}] })

GptNeoxMLP_init(cfg, path) ==
    MergeAll({
        [mods |-> { <<path, "GptNeoxMLP">> }, prms |-> {}],
        AdapterV2Linear_init(path \o <<"fc">>, cfg.n_embd, cfg.intermediate_size, cfg.bias),
        AdapterV2Linear_init(path \o <<"proj">>, cfg.intermediate_size, cfg.n_embd, cfg.bias) })

\* LLaMAMLP, and GemmaMLP which inherits its constructor
LLaMAMLP_init(cfg, path, cls) ==
    MergeAll({
        [mods |-> { <<path, cls>> }, prms |-> {}],
        AdapterV2Linear_init(path \o <<"fc_1">>, cfg.n_embd, cfg.intermediate_size, cfg.bias),
        AdapterV2Linear_init(path \o <<"fc_2">>, cfg.n_embd, cfg.intermediate_size, cfg.bias),
        AdapterV2Linear_init(path \o <<"proj">>, cfg.intermediate_size, cfg.n_embd, cfg.bias) })

\* the router left as the base model's plain nn.Linear
LLaMAMoE_init_plain_gate(cfg, path) ==
    MergeAll({
        [mods |-> { <<path, "LLaMAMoE">>, <<path \o <<"experts">>, "ModuleList">> }, prms |-> {}],
        Linear_init(path \o <<"gate">>, cfg.n_embd, cfg.n_expert, FALSE) }
      \cup { LLaMAMLP_init(cfg, path \o <<"experts", Index(e)>>, "LLaMAMLP")
             : e \in 0..(cfg.n_expert - 1) })

LLaMAMoE_init(cfg, path) ==
    MergeAll({
        [mods |-> { <<path, "LLaMAMoE">>, <<path \o <<"experts">>, "ModuleList">> }, prms |-> {}],
        AdapterV2Linear_init(path \o <<"gate">>, cfg.n_embd, cfg.n_expert, FALSE) }
      \cup { LLaMAMLP_init(cfg, path \o <<"experts", Index(e)>>, "LLaMAMLP")
             : e \in 0..(cfg.n_expert - 1) })

\* Config.mlp_class: getattr(litgpt.adapter_v2, self.mlp_class_name)
mlp_class(cfg, path) ==
    CASE cfg.mlp_class_name = "GptNeoxMLP" -> GptNeoxMLP_init(cfg, path)
      [] cfg.mlp_class_name = "LLaMAMLP"   -> LLaMAMLP_init(cfg, path, "LLaMAMLP")
      [] cfg.mlp_class_name = "GemmaMLP"   -> LLaMAMLP_init(cfg, path, "GemmaMLP")
      [] cfg.mlp_class_name = "LLaMAMoE"   -> LLaMAMoE_init(cfg, path)

\* Block.__init__ raises NotImplementedError for this combination
BlockRaises(cfg) == ~cfg.parallel_residual /\ cfg.shared_attention_norm

Block_init(cfg, path, block_idx) ==
    MergeAll({
        [mods |-> { <<path, "Block">> }, prms |-> {}],
        Norm_init(cfg, path \o <<"norm_1">>),
        CausalSelfAttention_init(cfg, path \o <<"attn">>, block_idx),
        IF cfg.post_attention_norm THEN Norm_init(cfg, path \o <<"post_attention_norm">>)
                                   ELSE Identity_init(path \o <<"post_attention_norm">>),
        IF cfg.shared_attention_norm THEN [mods |-> {}, prms |-> {}]
                                     ELSE Norm_init(cfg, path \o <<"norm_2">>),
        mlp_class(cfg, path \o <<"mlp">>),
        IF cfg.post_mlp_norm THEN Norm_init(cfg, path \o <<"post_mlp_norm">>)
                             ELSE Identity_init(path \o <<"post_mlp_norm">>) })

GPT_init(cfg) ==
    MergeAll({
        [mods |-> { << <<>>, "GPT">>, << <<"transformer">>, "ModuleDict">>,
                    << <<"transformer", "h">>, "ModuleList">> },
         prms |-> {}],
        AdapterV2Linear_init(<<"lm_head">>, cfg.n_embd, cfg.padded_vocab_size, cfg.lm_head_bias),
        Embedding_init(<<"transformer", "wte">>, cfg.padded_vocab_size, cfg.n_embd),
        Norm_init(cfg, <<"transformer", "ln_f">>) }
      \cup { Block_init(cfg, <<"transformer", "h", Index(i)>>, i) : i \in 0..(cfg.n_layer - 1) })

\* a set of <<key, value>> pairs with distinct keys, as a function
AsFunction(pairs) ==
    [k \in { pr[1] : pr \in pairs } |-> (CHOOSE pr \in pairs : pr[1] = k)[2]]

\* Architectures of the supported checkpoints: the norm, bias and residual
\* options of Config as they occur together.
Variants ==
    { [norm_class |-> "LayerNorm", bias |-> TRUE,  parallel_residual |-> TRUE,
       shared_attention_norm |-> FALSE, post_attention_norm |-> FALSE, post_mlp_norm |-> FALSE],
      [norm_class |-> "LayerNorm", bias |-> FALSE, parallel_residual |-> TRUE,
       shared_attention_norm |-> TRUE,  post_attention_norm |-> FALSE, post_mlp_norm |-> FALSE],
      [norm_class |-> "RMSNorm",   bias |-> FALSE, parallel_residual |-> FALSE,
       shared_attention_norm |-> FALSE, post_attention_norm |-> FALSE, post_mlp_norm |-> FALSE],
      [norm_class |-> "RMSNorm",   bias |-> FALSE, parallel_residual |-> FALSE,
       shared_attention_norm |-> FALSE, post_attention_norm |-> TRUE,  post_mlp_norm |-> TRUE] }

\* the configurations GPT(config) is built from
Configs ==
    { c \in
        [ n_layer : 1..MaxLayer,
          adapter_start_layer : 0..(MaxLayer + 1),
          adapter_prompt_length : {1, 2},
          n_head : 1..MaxHead,
          n_query_groups : {1},
          head_size : {1},
          n_embd : {2},
          padded_vocab_size : {3},
          intermediate_size : {2},
          n_expert : 0..MaxExpert,
          mlp_class_name : {"GptNeoxMLP", "LLaMAMLP", "GemmaMLP", "LLaMAMoE"},
          norm_class : {"LayerNorm", "RMSNorm"},
          bias : BOOLEAN,
          attn_bias : {FALSE},
          lm_head_bias : BOOLEAN,
          parallel_residual : BOOLEAN,
          shared_attention_norm : BOOLEAN,
          post_attention_norm : BOOLEAN,
          post_mlp_norm : BOOLEAN ] :
        /\ ~BlockRaises(c)
        /\ (c.mlp_class_name = "LLaMAMoE") <=> (c.n_expert > 0)
        /\ c.lm_head_bias = c.bias
        /\ \E v \in Variants : \A f \in DOMAIN v : c[f] = v[f]
        \* every architecture with one prefix geometry, and every prefix
        \* geometry with one architecture
        /\ \/ c.adapter_start_layer = 1 /\ c.n_head = 1 /\ c.adapter_prompt_length = 1
           \/ c.mlp_class_name = "LLaMAMLP" /\ c.norm_class = "RMSNorm"
              /\ ~c.post_attention_norm }

-----------------------------------------------------------------------------
(* Marking the trainable parameters *)

\* a marking that enables the adapter parameters and freezes nothing
mark_without_freezing(ps) ==
    [name \in DOMAIN ps |->
        [ps[name] EXCEPT !.requires_grad = @ \/ adapter_filter(FullName(name))]]

mark_only_adapter_v2_as_trainable(ps) ==
    [name \in DOMAIN ps |->
        [ps[name] EXCEPT !.requires_grad = adapter_filter(FullName(name))]]

\* mark_only_adapter_v2_as_trainable(model)
Mark ==
    /\ marked < MaxMarks
    /\ params' = mark_only_adapter_v2_as_trainable(params)
    /\ marked' = marked + 1
    /\ UNCHANGED <<config, modules, flips>>

\* The caller assigns requires_grad before (or between) the markings:
\* `p.requires_grad = (tok in name.split("."))` or its negation for every
\* parameter; PriorTokens holds a token no name has, so this covers
\* model.requires_grad_(False) and model.requires_grad_(True) as well.
PriorTokens == {"none", "linear", "adapter_scale", "adapter_bias", "norm_1",
                "wte", "weight", "bias", "attn", "mlp"}

HasToken(path, tok) == \E i \in 1..Len(path) : path[i] = tok

AssignRequiresGrad ==
    /\ flips < MaxFlips
    /\ \E tok \in PriorTokens, b \in BOOLEAN :
          params' = [name \in DOMAIN params |->
                        [params[name] EXCEPT !.requires_grad = (HasToken(name, tok) = b)]]
    /\ flips' = flips + 1
    /\ marked' = 0
    /\ UNCHANGED <<config, modules>>

-----------------------------------------------------------------------------
(* Parts of the state a specification does not use stay at these values *)

NoModel  == [kind |-> "none"]

IdleMark == config = NoModel /\ modules = NoModel /\ params = NoModel
            /\ marked = 0 /\ flips = 0
IdleLin  == lin = NoModel /\ fwd = NoCall /\ fresh = "none"
IdleLoad == state_dict = NoModel /\ loader = NoModel /\ sd_in = NoModel
            /\ remapped = NoModel /\ load_pc = "idle"
IdleFwd  == gpt = NoModel /\ call = NoCall

-----------------------------------------------------------------------------
(* Specification of construction and marking: model = GPT(config), then    *)
(* any interleaving of the caller's assignments and the marking.           *)

InitMark ==
    /\ config \in Configs
    /\ modules = AsFunction(GPT_init(config).mods)
    /\ params = AsFunction(GPT_init(config).prms)
    /\ marked = 0
    /\ flips = 0
    /\ IdleLin /\ IdleLoad /\ IdleFwd

NextMark ==
    \/ Mark /\ UNCHANGED <<linVars, loadVars, fwdVars>>
    \/ AssignRequiresGrad /\ UNCHANGED <<linVars, loadVars, fwdVars>>

SpecMark == InitMark /\ [][NextMark]_vars

-----------------------------------------------------------------------------
(* Properties of construction and marking *)

TrainableSubstrings ==
    { <<"a","d","a","p","t","e","r","_","w","t","e">>,
      <<"g","a","t","i","n","g","_","f","a","c","t","o","r">>,
      <<"a","d","a","p","t","e","r","_","s","c","a","l","e">>,
      <<"a","d","a","p","t","e","r","_","b","i","a","s">>,
      <<"n","o","r","m","_","1">>, <<"n","o","r","m","_","2">>, <<"l","n","_","f">> }

NamesTrainable(path) == \E s \in TrainableSubstrings : Contains(FullName(path), s)

MarkedExactly ==
    marked >= 1 =>
        \A name \in DOMAIN params : params[name].requires_grad <=> NamesTrainable(name)

SecondMarkChangesNothing ==
    [][(marked >= 1 /\ marked' = marked + 1) => params' = params]_vars

Block_path(i) == <<"transformer", "h", Index(i)>>

\* the linear projections the architecture has
Projections(cfg) ==
    { <<"lm_head">> }
    \cup UNION { { Block_path(i) \o <<"attn", "qkv">>, Block_path(i) \o <<"attn", "proj">> }
                 \cup (CASE cfg.mlp_class_name = "GptNeoxMLP" ->
                              { Block_path(i) \o <<"mlp", n>> : n \in {"fc", "proj"} }
                         [] cfg.mlp_class_name \in {"LLaMAMLP", "GemmaMLP"} ->
                              { Block_path(i) \o <<"mlp", n>> : n \in {"fc_1", "fc_2", "proj"} }
                         [] cfg.mlp_class_name = "LLaMAMoE" ->
                              { Block_path(i) \o <<"mlp", "gate">> }
                              \cup { Block_path(i) \o <<"mlp", "experts", Index(e), n>> :
                                        e \in 0..(cfg.n_expert - 1), n \in {"fc_1", "fc_2", "proj"} })
                 : i \in 0..(cfg.n_layer - 1) }

IsParam(name) == name \in DOMAIN params
Trainable(name) == IsParam(name) /\ params[name].requires_grad
Frozen(name) == IsParam(name) /\ ~params[name].requires_grad

\* C2: in a marked GPT(config) every linear projection is an AdapterV2Linear
\* with trainable adapter_scale and adapter_bias and a frozen wrapped
\* linear.weight and linear.bias; no nn.Linear stands outside such a wrapper;
\* the token embedding is frozen.
C2_ProjectionsWrapped ==
    marked >= 1 =>
        /\ \A m \in Projections(config) :
              /\ m \in DOMAIN modules /\ modules[m] = "AdapterV2Linear"
              /\ Trainable(m \o <<"adapter_scale">>)
              /\ Trainable(m \o <<"adapter_bias">>)
              /\ Frozen(m \o <<"linear", "weight">>)
              /\ IsParam(m \o <<"linear", "bias">>) => Frozen(m \o <<"linear", "bias">>)
        /\ \A m \in DOMAIN modules :
              modules[m] = "Linear" =>
                  /\ Len(m) >= 2 /\ m[Len(m)] = "linear"
                  /\ SubSeq(m, 1, Len(m) - 1) \in Projections(config)
        /\ Frozen(<<"transformer", "wte", "weight">>)

\* a marked mixture-of-experts model whose projections carry a bias
C2_Witness ==
    /\ marked >= 1
    /\ config.mlp_class_name = "LLaMAMoE" /\ config.n_expert >= 2
    /\ IsParam(Block_path(0) \o <<"mlp", "experts", "1", "fc_1", "linear", "bias">>)
    /\ IsParam(Block_path(0) \o <<"mlp", "gate", "adapter_scale">>)

OwnsPrefix(i) ==
    IsParam(Block_path(i) \o <<"attn", "adapter_wte", "weight">>)
    \/ IsParam(Block_path(i) \o <<"attn", "gating_factor">>)

\* C4: block i owns adapter_wte (adapter_prompt_length rows) and a zero
\* gating_factor of shape (1, 1, n_head, 1) exactly when
\* i >= adapter_start_layer; the other blocks own neither, so the blocks
\* with a prefix are the last n_layer - adapter_start_layer ones.
C4_PrefixFromStartLayer ==
    /\ \A i \in 0..(config.n_layer - 1) :
          LET wte == Block_path(i) \o <<"attn", "adapter_wte", "weight">>
              gf  == Block_path(i) \o <<"attn", "gating_factor">>
          IN  IF i >= config.adapter_start_layer
              THEN /\ IsParam(wte) /\ params[wte].shape[1] = config.adapter_prompt_length
                   /\ IsParam(gf) /\ params[gf].shape = <<1, 1, config.n_head, 1>>
                   /\ params[gf].init = "zeros"
              ELSE ~IsParam(wte) /\ ~IsParam(gf)
    /\ config.adapter_start_layer <= config.n_layer =>
          /\ Cardinality({ i \in 0..(config.n_layer - 1) : OwnsPrefix(i) })
                = config.n_layer - config.adapter_start_layer
          /\ \A i, j \in 0..(config.n_layer - 1) : (OwnsPrefix(i) /\ j >= i) => OwnsPrefix(j)

\* a model whose first block has no prefix and whose second block has one
C4_Witness ==
    /\ config.n_layer = 2 /\ config.adapter_start_layer = 1 /\ config.n_head = 2
    /\ ~OwnsPrefix(0) /\ OwnsPrefix(1)

-----------------------------------------------------------------------------
(* AdapterV2Linear: one instance, applied to one input vector x (a batch   *)
(* is handled row by row).  Tensors are functions from 1..n to integers.   *)

RECURSIVE Sum(_, _)
Sum(f, n) == IF n = 0 THEN 0 ELSE f[n] + Sum(f, n - 1)

\* torch.nn.Linear.forward: x W^T + b
Linear_forward(l, x) ==
    [o \in 1..l.out_features |->
        Sum([i \in 1..l.in_features |-> l.weight[o][i] * x[i]], l.in_features)
        + (IF l.has_bias THEN l.bias[o] ELSE 0)]

\* the adapter bias added after the scaling
forward_bias_after_scale(l, x) ==
    [o \in 1..l.out_features |-> l.adapter_scale[o] * Linear_forward(l, x)[o] + l.adapter_bias[o]]

\* AdapterV2Linear.forward
AdapterV2Linear_forward(l, x) ==
    [o \in 1..l.out_features |-> l.adapter_scale[o] * (Linear_forward(l, x)[o] + l.adapter_bias[o])]

\* AdapterV2Linear.__init__(in_features, out_features, bias=...): the wrapped
\* projection gets its (random) initial weights, here one of two matrices.
AdapterV2Linear_new(in_features, out_features, bias, seed) ==
    [in_features |-> in_features, out_features |-> out_features, has_bias |-> bias,
     weight |-> [o \in 1..out_features |-> [i \in 1..in_features |-> seed * o - i]],
     bias |-> [o \in 1..out_features |-> IF bias THEN o ELSE 0],
     adapter_bias |-> [o \in 1..out_features |-> 0],
     adapter_scale |-> [o \in 1..out_features |-> 1]]

InputValues == {-1, 2}
BiasValues  == {0, 1}
ScaleValues == {1, 2}

\* y = module(x)
Forward ==
    /\ \E x \in [1..lin.in_features -> InputValues] :
          fwd' = [kind |-> "forward", x |-> x, y |-> AdapterV2Linear_forward(lin, x)]
    /\ UNCHANGED <<lin, fresh>>

\* an optimizer step (or a loaded checkpoint) gives the adapter parameters
\* new values; the wrapped projection is frozen
Train ==
    /\ \E b \in [1..lin.out_features -> BiasValues],
          sc \in [1..lin.out_features -> ScaleValues] :
          lin' = [lin EXCEPT !.adapter_bias = b, !.adapter_scale = sc]
    /\ fresh' = "trained"
    /\ fwd' = NoCall

\* AdapterV2Linear.reset_parameters
reset_parameters(l) ==
    [l EXCEPT !.adapter_bias = [o \in 1..l.out_features |-> 0],
              !.adapter_scale = [o \in 1..l.out_features |-> 1]]

ResetParameters ==
    /\ lin' = reset_parameters(lin)
    /\ fresh' = IF fresh \in {"trained", "reset_trained"} THEN "reset_trained" ELSE "reset"
    /\ fwd' = NoCall

InitLin ==
    /\ \E i \in 1..MaxFeat, o \in 1..MaxFeat, b \in BOOLEAN, seed \in {1, 2} :
          lin = AdapterV2Linear_new(i, o, b, seed)
    /\ fwd = NoCall
    /\ fresh = "constructed"
    /\ IdleMark /\ IdleLoad /\ IdleFwd

NextLin ==
    \/ Forward /\ UNCHANGED <<markVars, loadVars, fwdVars>>
    \/ Train /\ UNCHANGED <<markVars, loadVars, fwdVars>>
    \/ ResetParameters /\ UNCHANGED <<markVars, loadVars, fwdVars>>

SpecLin == InitLin /\ [][NextLin]_vars

\* C3: forward(x) = adapter_scale * (linear(x) + adapter_bias) per output
\* feature; right after construction and right after reset_parameters,
\* whatever the adapter parameters were before, forward(x) = linear(x).
C3_ForwardAffine ==
    fwd.kind = "forward" =>
        /\ \A o \in 1..lin.out_features :
              fwd.y[o] = lin.adapter_scale[o] * (Linear_forward(lin, fwd.x)[o] + lin.adapter_bias[o])
        /\ fresh \in {"constructed", "reset", "reset_trained"} =>
              fwd.y = Linear_forward(lin, fwd.x)

\* a forward pass right after reset_parameters overwrote trained values,
\* with a non-zero result
C3_Witness ==
    /\ fresh = "reset_trained" /\ fwd.kind = "forward"
    /\ lin.out_features = 2 /\ lin.has_bias
    /\ \E o \in 1..lin.out_features : fwd.y[o] # 0

-----------------------------------------------------------------------------
(* Checkpoint loading.  A state dict is a function from keys (strings) to  *)
(* tensors; a tensor is its shape and its elements in row-major order.     *)

Tensor(shape, data) == [shape |-> shape, data |-> data]

HasKey(sd, k) == k \in DOMAIN sd

\* state_dict.pop(k), the dict it leaves
Pop(sd, k) == [x \in DOMAIN sd \ {k} |-> sd[x]]

\* state_dict[k] = v
Put(sd, k, v) == [x \in DOMAIN sd \cup {k} |-> IF x = k THEN v ELSE sd[x]]

\* litgpt.utils.map_old_state_dict_weights(state_dict, mapping, prefix):
\* for every entry old -> new, in the mapping's order, a key prefix+old
\* is popped and its value stored at prefix+new.
RECURSIVE map_old_state_dict_weights(_, _, _)
map_old_state_dict_weights(sd, mapping, prefix) ==
    IF mapping = <<>> THEN sd
    ELSE LET checkpoint_name == prefix \o mapping[1][1]
             attribute_name  == prefix \o mapping[1][2]
             moved == IF HasKey(sd, checkpoint_name)
                      THEN Put(Pop(sd, checkpoint_name), attribute_name, sd[checkpoint_name])
                      ELSE sd
         IN  map_old_state_dict_weights(moved, Tail(mapping), prefix)

GPT_mapping ==
    << <<"lm_head.weight", "lm_head.linear.weight">>,
       <<"lm_head.bias",   "lm_head.linear.bias">> >>

\* proj.bias sent to the weight's key
CausalSelfAttention_mapping_slip ==
    << <<"qkv.weight",  "qkv.linear.weight">>,
       <<"qkv.bias",    "qkv.linear.bias">>,
       <<"proj.weight", "proj.linear.weight">>,
       <<"proj.bias",   "proj.linear.weight">> >>

CausalSelfAttention_mapping ==
    << <<"qkv.weight",  "qkv.linear.weight">>,
       <<"qkv.bias",    "qkv.linear.bias">>,
       <<"proj.weight", "proj.linear.weight">>,
       <<"proj.bias",   "proj.linear.bias">> >>

GptNeoxMLP_mapping ==
    << <<"fc.weight",   "fc.linear.weight">>,
       <<"fc.bias",     "fc.linear.bias">>,
       <<"proj.weight", "proj.linear.weight">>,
       <<"proj.bias",   "proj.linear.bias">> >>

LLaMAMLP_mapping ==
    << <<"fc_1.weight", "fc_1.linear.weight">>,
       <<"fc_1.bias",   "fc_1.linear.bias">>,
       <<"fc_2.weight", "fc_2.linear.weight">>,
       <<"fc_2.bias",   "fc_2.linear.bias">>,
       <<"proj.weight", "proj.linear.weight">>,
       <<"proj.bias",   "proj.linear.bias">> >>

LLaMAMoE_mapping == << <<"gate.weight", "gate.linear.weight">> >>

\* the `mapping` of a class's _load_from_state_dict (GemmaMLP inherits LLaMAMLP's)
MappingOf(cls) ==
    CASE cls = "GPT"                 -> GPT_mapping
      [] cls = "CausalSelfAttention" -> CausalSelfAttention_mapping
      [] cls = "GptNeoxMLP"          -> GptNeoxMLP_mapping
      [] cls = "LLaMAMLP"            -> LLaMAMLP_mapping
      [] cls = "LLaMAMoE"            -> LLaMAMoE_mapping

\* tensor.permute(0, 2, 1, 3) of a 4-d tensor
permute_0213(t) ==
    LET S == t.shape
        n == Len(t.data)
        \* 0-based coordinates (a, b, c, d) of flat position f in the result,
        \* whose shape is (S[1], S[3], S[2], S[4])
        d(f) == f % S[4]
        c(f) == (f \div S[4]) % S[2]
        b(f) == (f \div (S[4] * S[2])) % S[3]
        a(f) == f \div (S[4] * S[2] * S[3])
    IN  Tensor(<<S[1], S[3], S[2], S[4]>>,
               [f \in 1..n |->
                   t.data[((a(f - 1) * S[2] + c(f - 1)) * S[3] + b(f - 1)) * S[4] + d(f - 1) + 1]])

\* the swap decided on dimension 2 instead of dimension 1
gating_factor_compat_dim2(sd, prefix, cfg) ==
    LET key == prefix \o "gating_factor" IN
    IF HasKey(sd, key) /\ sd[key].shape[3] = cfg.n_head
    THEN Put(sd, key, permute_0213(sd[key]))
    ELSE sd

\* lines 198-200: `size(1) == n_head` reads the second dimension
gating_factor_compat(sd, prefix, cfg) ==
    LET key == prefix \o "gating_factor" IN
    IF HasKey(sd, key) /\ sd[key].shape[2] = cfg.n_head
    THEN Put(sd, key, permute_0213(sd[key]))
    ELSE sd

\* the rows (dimension 0) of a tensor, and a tensor from rows
Rows(t) ==
    LET w == Len(t.data) \div t.shape[1] IN
    [r \in 1..t.shape[1] |-> SubSeq(t.data, (r - 1) * w + 1, r * w)]

RECURSIVE Flatten(_)
Flatten(rows) == IF rows = <<>> THEN <<>> ELSE rows[1] \o Flatten(Tail(rows))

\* litgpt.scripts.convert_hf_checkpoint.qkv_reassemble(param, config): the
\* rows [Q K V  Q K V ...] of the n_query_groups groups, each group holding
\* q_per_kv query heads, one key head and one value head, are put in the
\* order [Q Q ...  K K ...  V V ...].
qkv_reassemble(param, cfg) ==
    LET q_per_kv == cfg.n_head \div cfg.n_query_groups
        hs == cfg.head_size
        per_group == (q_per_kv + 2) * hs
        rows == Rows(param)
        group(g) == SubSeq(rows, (g - 1) * per_group + 1, g * per_group)
        qs == Flatten([g \in 1..cfg.n_query_groups |-> SubSeq(group(g), 1, hs * q_per_kv)])
        ks == Flatten([g \in 1..cfg.n_query_groups |->
                          SubSeq(group(g), hs * q_per_kv + 1, hs * q_per_kv + hs)])
        vs == Flatten([g \in 1..cfg.n_query_groups |->
                          SubSeq(group(g), hs * q_per_kv + hs + 1, per_group)])
    IN  Tensor(param.shape, Flatten(qs \o ks \o vs))

\* the legacy value stored without removing the legacy key
legacy_qkv_keep(sd, prefix, attr, cfg) ==
    LET legacy_key  == prefix \o "attn.linear." \o attr
        current_key == prefix \o "qkv.linear." \o attr
    IN  IF HasKey(sd, legacy_key)
        THEN Put(sd, current_key, qkv_reassemble(sd[legacy_key], cfg))
        ELSE sd

\* lines 203-206, the body of the loop over attr
legacy_qkv(sd, prefix, attr, cfg) ==
    LET legacy_key  == prefix \o "attn.linear." \o attr
        current_key == prefix \o "qkv.linear." \o attr
    IN  IF HasKey(sd, legacy_key)
        THEN Put(Pop(sd, legacy_key), current_key, qkv_reassemble(sd[legacy_key], cfg))
        ELSE sd

\* CausalSelfAttention._load_from_state_dict up to the call of the parent loader
CausalSelfAttention_load(sd, prefix, cfg) ==
    LET mapped == map_old_state_dict_weights(sd, MappingOf("CausalSelfAttention"), prefix)
        gated  == gating_factor_compat(mapped, prefix, cfg)
    IN  legacy_qkv(legacy_qkv(gated, prefix, "weight", cfg), prefix, "bias", cfg)

-----------------------------------------------------------------------------
(* The state dicts handed to the hooks: up to MaxKeys keys out of the keys *)
(* the module's own mapping names (old and new form), the module's other   *)
(* keys and keys of other modules; every key holds a tensor of its own.    *)

PrefixesOf(cls) ==
    CASE cls = "GPT"                 -> {"", "model."}
      [] cls = "CausalSelfAttention" -> {"transformer.h.0.attn."}
      [] cls = "GptNeoxMLP"          -> {"transformer.h.0.mlp."}
      [] cls = "LLaMAMLP"            -> {"transformer.h.0.mlp.", "transformer.h.0.mlp.experts.0."}
      [] cls = "LLaMAMoE"            -> {"transformer.h.0.mlp."}

OtherSuffixes(cls) ==
    CASE cls = "CausalSelfAttention" ->
            <<"gating_factor", "attn.linear.weight", "attn.linear.bias", "adapter_wte.weight">>
      [] cls = "GPT"   -> <<"lm_head.adapter_scale">>
      [] OTHER         -> <<"proj.adapter_bias">>

ForeignKeys(cls) ==
    CASE cls = "GPT"                 -> <<"transformer.wte.weight", "transformer.h.0.attn.proj.weight">>
      [] cls = "CausalSelfAttention" -> <<"transformer.h.1.attn.qkv.weight", "transformer.h.0.mlp.proj.weight">>
      [] cls = "GptNeoxMLP"          -> <<"transformer.h.0.attn.proj.weight", "transformer.h.1.mlp.fc.weight">>
      [] cls = "LLaMAMLP"            -> <<"transformer.h.0.attn.proj.weight", "transformer.h.1.mlp.fc_1.weight">>
      [] cls = "LLaMAMoE"            -> <<"transformer.h.0.attn.proj.weight", "transformer.h.1.mlp.gate.weight">>

KeyKind(cls, suffix) ==
    IF cls # "CausalSelfAttention" THEN "plain"
    ELSE CASE suffix \in {"qkv.weight", "qkv.linear.weight", "attn.linear.weight"} -> "qkv_weight"
           [] suffix \in {"qkv.bias", "qkv.linear.bias", "attn.linear.bias"}       -> "qkv_bias"
           [] suffix = "gating_factor"                                             -> "gating"
           [] OTHER                                                                -> "plain"

\* the candidate keys, each with the kind of tensor it holds
KeyPool(cls, prefix) ==
    LET M == MappingOf(cls)
        own == [i \in 1..Len(M) |-> M[i][1]] \o [i \in 1..Len(M) |-> M[i][2]] \o OtherSuffixes(cls)
        F == ForeignKeys(cls)
    IN  [i \in 1..Len(own) |-> [key |-> prefix \o own[i], kind |-> KeyKind(cls, own[i])]]
        \o [i \in 1..Len(F) |-> [key |-> F[i], kind |-> "plain"]]

Iota(n, base) == [j \in 1..n |-> base + j]

\* the tensor key number i holds: its elements tell the keys apart
CheckpointTensor(i, kind, cfg, layout) ==
    LET R == (cfg.n_head + 2 * cfg.n_query_groups) * cfg.head_size IN
    CASE kind = "plain"      -> Tensor(<<1>>, Iota(1, 100 * i))
      [] kind = "qkv_weight" -> Tensor(<<R, 2>>, Iota(2 * R, 100 * i))
      [] kind = "qkv_bias"   -> Tensor(<<R>>, Iota(R, 100 * i))
      [] kind = "gating"     ->
            Tensor(IF layout = "old" THEN <<1, cfg.n_head, 1, 1>> ELSE <<1, 1, cfg.n_head, 1>>,
                   Iota(cfg.n_head, 100 * i))

\* n_head, n_query_groups (a divisor of n_head) and head_size of the module
AttnConfigs ==
    { c \in [n_head : 1..MaxHead, n_query_groups : 1..MaxHead, head_size : {1, 2}] :
        c.n_head % c.n_query_groups = 0 }

NoConfig == [n_head |-> 1, n_query_groups |-> 1, head_size |-> 1]

Classes == {"GPT", "CausalSelfAttention", "GptNeoxMLP", "LLaMAMLP", "LLaMAMoE"}

InitLoad ==
    /\ \E cls \in Classes :
       \E prefix \in PrefixesOf(cls) :
       \E cfg \in (IF cls = "CausalSelfAttention" THEN AttnConfigs ELSE {NoConfig}) :
       \E layout \in {"old", "current"} :
          LET pool == KeyPool(cls, prefix) IN
          \E S \in { T \in SUBSET (1..Len(pool)) : Cardinality(T) <= MaxKeys } :
             /\ loader = [cls |-> cls, prefix |-> prefix, cfg |-> cfg]
             /\ state_dict = [k \in { pool[i].key : i \in S } |->
                                LET i == CHOOSE i \in S : pool[i].key = k
                                IN  CheckpointTensor(i, pool[i].kind, cfg, layout)]
    /\ sd_in = state_dict
    /\ remapped = NoModel
    /\ load_pc = "start"
    /\ IdleMark /\ IdleLin /\ IdleFwd

\* a hook that only remaps: GPT, GptNeoxMLP, LLaMAMLP (and GemmaMLP), LLaMAMoE
RemapOnly(cls) ==
    /\ load_pc = "start" /\ loader.cls = cls
    /\ remapped' = map_old_state_dict_weights(state_dict, MappingOf(cls), loader.prefix)
    /\ state_dict' = remapped'
    /\ load_pc' = "loaded"
    /\ UNCHANGED <<loader, sd_in>>

GPT_load_from_state_dict        == RemapOnly("GPT")
GptNeoxMLP_load_from_state_dict == RemapOnly("GptNeoxMLP")
LLaMAMLP_load_from_state_dict   == RemapOnly("LLaMAMLP")
LLaMAMoE_load_from_state_dict   == RemapOnly("LLaMAMoE")

CausalSelfAttention_load_from_state_dict ==
    /\ load_pc = "start" /\ loader.cls = "CausalSelfAttention"
    /\ remapped' = map_old_state_dict_weights(state_dict, MappingOf("CausalSelfAttention"),
                                              loader.prefix)
    /\ state_dict' = CausalSelfAttention_load(state_dict, loader.prefix, loader.cfg)
    /\ load_pc' = "loaded"
    /\ UNCHANGED <<loader, sd_in>>

NextLoad ==
    \/ GPT_load_from_state_dict /\ UNCHANGED <<markVars, linVars, fwdVars>>
    \/ CausalSelfAttention_load_from_state_dict /\ UNCHANGED <<markVars, linVars, fwdVars>>
    \/ GptNeoxMLP_load_from_state_dict /\ UNCHANGED <<markVars, linVars, fwdVars>>
    \/ LLaMAMLP_load_from_state_dict /\ UNCHANGED <<markVars, linVars, fwdVars>>
    \/ LLaMAMoE_load_from_state_dict /\ UNCHANGED <<markVars, linVars, fwdVars>>

SpecLoad == InitLoad /\ [][NextLoad]_vars

-----------------------------------------------------------------------------
(* Properties of checkpoint loading *)

Loaded == load_pc = "loaded"

\* the projections whose keys a class remaps, and the attributes remapped
RemappedNames(cls) ==
    CASE cls = "GPT"                 -> {"lm_head"}
      [] cls = "CausalSelfAttention" -> {"qkv", "proj"}
      [] cls = "GptNeoxMLP"          -> {"fc", "proj"}
      [] cls = "LLaMAMLP"            -> {"fc_1", "fc_2", "proj"}
      [] cls = "LLaMAMoE"            -> {"gate"}

RemappedAttrs(cls) == IF cls = "LLaMAMoE" THEN {"weight"} ELSE {"weight", "bias"}

\* the entries old -> new: <name>.<attr> -> <name>.linear.<attr>
Entries ==
    { <<n \o "." \o a, n \o ".linear." \o a>> :
        n \in RemappedNames(loader.cls), a \in RemappedAttrs(loader.cls) }

OldKeys == { loader.prefix \o e[1] : e \in Entries }

\* the new-form keys that the remapping writes: those whose old form is present
WrittenKeys == { loader.prefix \o e[2] : e \in { x \in Entries : HasKey(sd_in, loader.prefix \o x[1]) } }

EntriesMoved ==
    \A e \in Entries :
        HasKey(sd_in, loader.prefix \o e[1]) =>
            /\ HasKey(remapped, loader.prefix \o e[2])
            /\ remapped[loader.prefix \o e[2]] = sd_in[loader.prefix \o e[1]]
            /\ ~HasKey(remapped, loader.prefix \o e[1])

\* C5 as stated: every old-form key is moved to its new-form key with its
\* value, and every key that is not an old-form key of the mapping keeps
\* its name and value.
C5_AsStated ==
    Loaded =>
        /\ EntriesMoved
        /\ \A k \in DOMAIN sd_in \ OldKeys : HasKey(remapped, k) /\ remapped[k] = sd_in[k]

\* C5, amended: every old-form key is moved to its new-form key with its
\* value; every key that is neither an old-form key nor the new-form key of
\* an old-form key that is present keeps its name and value (a new-form key
\* present next to its old form takes the old form's value).
C5_RemapMovesOldKeys ==
    Loaded =>
        /\ EntriesMoved
        /\ \A k \in DOMAIN sd_in \ (OldKeys \cup WrittenKeys) :
              HasKey(remapped, k) /\ remapped[k] = sd_in[k]
        /\ \A k \in WrittenKeys \cap DOMAIN sd_in :
              \E e \in Entries : k = loader.prefix \o e[2]
                                 /\ remapped[k] = sd_in[loader.prefix \o e[1]]

\* an MLP hook has moved two old-form keys next to an adapter-v2 key and left
\* another module's old-form key alone
C5_Witness ==
    /\ Loaded /\ loader.cls = "LLaMAMLP" /\ loader.prefix = "transformer.h.0.mlp.experts.0."
    /\ HasKey(sd_in, "transformer.h.0.mlp.experts.0.fc_1.weight")
    /\ HasKey(sd_in, "transformer.h.0.mlp.experts.0.proj.bias")
    /\ HasKey(sd_in, "transformer.h.0.attn.proj.weight")
    /\ HasKey(remapped, "transformer.h.0.mlp.experts.0.fc_1.linear.weight")
    /\ HasKey(remapped, "transformer.h.0.attn.proj.weight")

AttnLoaded == Loaded /\ loader.cls = "CausalSelfAttention"

\* C6: a legacy key prefix+"attn.linear."+attr is removed and
\* prefix+"qkv.linear."+attr holds qkv_reassemble of its value, replacing what
\* the remapping put there; without the legacy key, prefix+"qkv.linear."+attr
\* is as the remapping left it.
C6_LegacyQkvReassembled ==
    AttnLoaded =>
        \A attr \in {"weight", "bias"} :
            LET legacy_key  == loader.prefix \o "attn.linear." \o attr
                current_key == loader.prefix \o "qkv.linear." \o attr
            IN  IF HasKey(sd_in, legacy_key)
                THEN /\ ~HasKey(state_dict, legacy_key)
                     /\ HasKey(state_dict, current_key)
                     /\ state_dict[current_key] = qkv_reassemble(sd_in[legacy_key], loader.cfg)
                ELSE /\ HasKey(state_dict, current_key) <=> HasKey(remapped, current_key)
                     /\ HasKey(remapped, current_key) =>
                            state_dict[current_key] = remapped[current_key]

\* a legacy weight replaced the value the remapping had moved from
\* qkv.weight, in a module with two query groups (the reassembly reorders)
C6_Witness ==
    /\ AttnLoaded /\ loader.cfg.n_query_groups = 2
    /\ HasKey(sd_in, loader.prefix \o "attn.linear.weight")
    /\ HasKey(sd_in, loader.prefix \o "qkv.weight")
    /\ HasKey(remapped, loader.prefix \o "qkv.linear.weight")
    /\ state_dict[loader.prefix \o "qkv.linear.weight"] # remapped[loader.prefix \o "qkv.linear.weight"]
    /\ state_dict[loader.prefix \o "qkv.linear.weight"] # sd_in[loader.prefix \o "attn.linear.weight"]

\* C7: a gating_factor in the old layout (1, n_head, 1, 1) or the current
\* layout (1, 1, n_head, 1) is stored in the current layout after the hook,
\* for every n_head >= 1; dimensions 1 and 2 are swapped exactly when
\* dimension 1 has size n_head, and a tensor in the current layout with
\* n_head > 1 is left untouched.
C7_GatingFactorLayout ==
    AttnLoaded =>
        LET key == loader.prefix \o "gating_factor"
            n   == loader.cfg.n_head
        IN  HasKey(sd_in, key) =>
                /\ HasKey(state_dict, key)
                /\ state_dict[key].shape = <<1, 1, n, 1>>
                /\ state_dict[key].data = sd_in[key].data
                /\ sd_in[key].shape[2] = n =>
                      state_dict[key].shape = <<sd_in[key].shape[1], sd_in[key].shape[3],
                                                sd_in[key].shape[2], sd_in[key].shape[4]>>
                /\ (sd_in[key].shape = <<1, 1, n, 1>> /\ n > 1) => state_dict[key] = sd_in[key]
                /\ sd_in[key].shape[2] # n => state_dict[key] = sd_in[key]

\* an old-layout gating_factor of a two-head module has been converted
C7_Witness ==
    /\ AttnLoaded /\ loader.cfg.n_head = 2
    /\ HasKey(sd_in, loader.prefix \o "gating_factor")
    /\ sd_in[loader.prefix \o "gating_factor"].shape = <<1, 2, 1, 1>>
    /\ state_dict[loader.prefix \o "gating_factor"].shape = <<1, 1, 2, 1>>

-----------------------------------------------------------------------------
(* GPT.forward: the checks of its arguments, up to the first block *)

None == "None"

\* the rows of the rope cache `self.cos` that the max_seq_length setter of
\* the base model builds: one per position
cos_size(max_seq_length) == max_seq_length

\* GPT.__init__, lines 81-82
GPT_new(cfg) ==
    [max_seq_length |-> cfg.block_size,
     cos_size |-> cos_size(cfg.block_size),
     mask_cache |-> None]

Raise(error) == [kind |-> "raise", error |-> error, mask |-> None, blocks_run |-> FALSE]
Return(mask) == [kind |-> "return", error |-> None, mask |-> mask, blocks_run |-> TRUE]

\* torch.index_select(dim, index) needs every index inside the dimension
InRange(input_pos, size) == \A i \in 1..Len(input_pos) : input_pos[i] >= 0 /\ input_pos[i] < size

\* the length check raising for T = max_seq_length as well
GPT_forward_length_off_by_one(g, T, input_pos) ==
    IF g.max_seq_length <= T THEN { Raise("ValueError") }
    ELSE IF input_pos.given
    THEN (IF InRange(input_pos.pos, g.cos_size) THEN {} ELSE { Raise("IndexError") })
         \cup (IF g.mask_cache = None THEN { Raise("TypeError") } ELSE { Return("mask_cache") })
    ELSE { Return(None) }

\* GPT.forward, lines 87-106: the outcomes of a call.  An index outside the
\* rope cache makes index_select raise IndexError on the CPU; on a CUDA
\* device the kernel's assertion is reported asynchronously and the
\* statements that follow run first.
GPT_forward(g, T, input_pos) ==
    IF g.max_seq_length < T THEN { Raise("ValueError") }
    ELSE IF input_pos.given
    THEN (IF InRange(input_pos.pos, g.cos_size) THEN {} ELSE { Raise("IndexError") })
         \cup (IF g.mask_cache = None THEN { Raise("TypeError") } ELSE { Return("mask_cache") })
    ELSE { Return(None) }

\* positions start .. start + T - 1, as prefill and decoding pass them
Positions(start, T) == [given |-> TRUE, pos |-> [i \in 1..T |-> start + i - 1]]

\* no input_pos passed (None)
NoInputPos == [given |-> FALSE, pos |-> <<>>]

\* model(idx, input_pos)
CallForward ==
    /\ \E T \in 1..(MaxSeq + 1) :
       \E input_pos \in {NoInputPos} \cup { Positions(st, T) : st \in 0..MaxSeq } :
       \E outcome \in GPT_forward(gpt, T, input_pos) :
          call' = [kind |-> outcome.kind, error |-> outcome.error, mask |-> outcome.mask,
                   blocks_run |-> outcome.blocks_run, T |-> T, input_pos |-> input_pos]
    /\ UNCHANGED gpt

\* GPT.set_kv_cache of the base model builds the mask cache
set_kv_cache(g) == [g EXCEPT !.mask_cache = "mask_cache"]

SetKvCache ==
    /\ gpt.mask_cache = None
    /\ gpt' = set_kv_cache(gpt)
    /\ call' = NoCall

InitFwd ==
    /\ \E block_size \in 1..MaxSeq : gpt = GPT_new([block_size |-> block_size])
    /\ call = NoCall
    /\ IdleMark /\ IdleLin /\ IdleLoad

NextFwd ==
    \/ CallForward /\ UNCHANGED <<markVars, linVars, loadVars>>
    \/ SetKvCache /\ UNCHANGED <<markVars, linVars, loadVars>>

SpecFwd == InitFwd /\ [][NextFwd]_vars

Called == call.kind # "none"

TooLong == call.T > gpt.max_seq_length

ChecksFirst ==
    /\ Called /\ call.kind = "raise" => ~call.blocks_run
    /\ Called /\ TooLong => call.kind = "raise" /\ call.error = "ValueError"
    /\ Called /\ ~TooLong /\ ~call.input_pos.given =>
          call.kind = "return" /\ call.mask = None

\* C8 as stated: a too long sequence raises ValueError whatever input_pos
\* is; otherwise input_pos without a mask cache raises TypeError; otherwise,
\* without input_pos, nothing is raised and mask is None.
C8_AsStated ==
    /\ ChecksFirst
    /\ Called /\ ~TooLong /\ call.input_pos.given /\ gpt.mask_cache = None =>
          call.kind = "raise" /\ call.error = "TypeError"

\* C8, amended: as stated, the TypeError being raised when moreover every
\* position of input_pos indexes the rope cache (0 <= pos < cos.size(0));
\* a position outside it can raise IndexError before mask_cache is looked at.
C8_ForwardChecks ==
    /\ ChecksFirst
    /\ Called /\ ~TooLong /\ call.input_pos.given /\ gpt.mask_cache = None
       /\ InRange(call.input_pos.pos, gpt.cos_size) =>
          call.kind = "raise" /\ call.error = "TypeError"

\* a call with input_pos inside the rope cache, of the longest admitted
\* length, on a model without kv cache, has raised TypeError
C8_Witness ==
    /\ Called /\ call.T = gpt.max_seq_length /\ call.T >= 2
    /\ call.input_pos.given /\ InRange(call.input_pos.pos, gpt.cos_size)
    /\ gpt.mask_cache = None
    /\ call.kind = "raise" /\ call.error = "TypeError" /\ ~call.blocks_run

====
